---- MODULE Spec2Model ----
(***************************************************************************)
(* Playback engine (AudioPlayerProvider) and playlist store of tune-in.    *)
(*                                                                         *)
(* The provider is a React function component.  Its state lives in         *)
(* useState cells; every async function it exports reads the cells of the  *)
(* render it was created in and keeps that reading across its awaits.  A   *)
(* call made by a screen uses the functions of the latest render, so it    *)
(* reads the committed state at call time; the status callback registered  *)
(* on a sound by the effect of lines 86-93 keeps the state of the render   *)
(* in which playbackInstance became that sound (the effect's dependency    *)
(* list is [playbackInstance] only).  State updates issued in one          *)
(* continuation are committed together, the last update of a cell winning. *)
(*                                                                         *)
(* The audio runtime (expo-av) is the environment: it answers every        *)
(* unloadAsync / createAsync / stopAsync / pauseAsync / playAsync /        *)
(* setPositionAsync with success or failure and delivers status updates    *)
(* to the callback registered on a sound.                                  *)
(***************************************************************************)
EXTENDS Integers, Sequences, FiniteSets, TLC

\* ---------------------------------------------------------------- bounds
NumSongs  == 3      \* downloaded songs, ids 1..NumSongs
MaxQueue  == 3      \* longest queue a screen hands to setPlaylist
MaxSounds == 2      \* sounds the runtime creates in one behaviour
MaxMs     == 1      \* largest duration / position the runtime reports
MaxCalls  == 2      \* async provider calls suspended at the same time
MaxPlaylists  == 2  \* playlists created in one behaviour
MaxStoreCalls == 2  \* playlist service calls suspended at the same time
MaxClock      == 1  \* latest time new Date() returns
NumStoreSongs == 2  \* songs the screens add to playlists, ids 1..NumStoreSongs
MaxStoreOps   == 2  \* playlist service calls started in one behaviour

\* ------------------------------------------------------------ data model
NoSong  == [id |-> 0, coverImage |-> 0]          \* currentSong: null
NoSound == 0                                     \* playbackInstance: null
NoError == "null"                                \* error: null

Min(a, b) == IF a < b THEN a ELSE b
Max(a, b) == IF a > b THEN a ELSE b

SongIds == 1..NumSongs
Songs   == {[id |-> i, coverImage |-> i] : i \in SongIds}
Sounds  == 1..MaxSounds

RECURSIVE SeqsUpTo(_, _)
SeqsUpTo(S, n) ==
    IF n = 0 THEN {<<>>}
    ELSE LET shorter == SeqsUpTo(S, n - 1)
         IN  shorter \cup {Append(q, x) : q \in {r \in shorter : Len(r) = n - 1}, x \in S}

\* Queues the screens build: a playlist's songs, a shuffle of them, or one
\* library song; no song id occurs twice in any of them.
Queues  == {q \in SeqsUpTo(Songs, MaxQueue) :
               \A i, j \in 1..Len(q) : q[i].id = q[j].id => i = j}
Sources == {"library", "playlist", "playlist-detail"}

VARIABLES
    \* useState cells of AudioPlayerProvider
    currentSong, isPlaying, isLoading, playbackInstance,
    duration, position, playlist, error, playlistSource,
    \* audio runtime
    open,        \* sounds whose native resource is loaded
    unloading,   \* sounds with an un-awaited unloadAsync of the cleanup effect in flight
    onStatus,    \* sound -> closure of the status callback registered on it
    nextSound,   \* next sound handle createAsync returns
    \* suspended async calls of the provider
    calls

engineVars == <<currentSong, isPlaying, isLoading, playbackInstance, duration,
                position, playlist, error, playlistSource, open, unloading,
                onStatus, nextSound, calls>>

VARIABLES
    \* Durable Store and the playlist service calls suspended on it
    storage,     \* value stored under PLAYLISTS_KEY
    clock,       \* what new Date() returns
    nextId,      \* the fresh id the next createPlaylist generates
    started,     \* playlist service calls started so far
    storeCalls,  \* suspended calls of the playlist service
    outcome      \* what the call returning in the latest step reported; "none" when
                 \* that step returned from no call

storeVars == <<storage, clock, nextId, started, storeCalls, outcome>>

VARIABLES
    \* PlaylistDetailScreen
    shown        \* its playlist state cell; NoPlaylist stands for null

screenVars == <<shown>>

vars == <<engineVars, storeVars, screenVars>>

\* ------------------------------------------------------ queue navigation
\* Array.prototype.findIndex on song ids, 0-based, -1 when absent.
FindIndex(pl, id) ==
    LET hits == {i \in 1..Len(pl) : pl[i].id = id}
    IN  IF hits = {} THEN 0 - 1
        ELSE (CHOOSE i \in hits : \A j \in hits : i <= j) - 1

\* getCurrentSongIndex that falls back to the first entry.
getCurrentSongIndexOrFirst(cs, pl) ==
    IF Len(pl) = 0 THEN 0 - 1
    ELSE IF cs = NoSong THEN 0
    ELSE Max(0, FindIndex(pl, cs.id))

\* Lines 167-170.
getCurrentSongIndex(cs, pl) ==
    IF cs = NoSong \/ Len(pl) = 0 THEN 0 - 1
    ELSE FindIndex(pl, cs.id)

\* NextIndex that stays on the last entry instead of wrapping.
NextIndexNoWrap(currentIndex, length) ==
    IF currentIndex + 1 >= length THEN currentIndex ELSE currentIndex + 1

\* Line 179.
NextIndex(currentIndex, length) == (currentIndex + 1) % length

\* Line 194.
PreviousIndex(currentIndex, length) == (currentIndex - 1 + length) % length

\* Lines 174-180: the song playNextSong hands to playSong when it runs in a
\* closure that sees currentSong cs and playlist pl; NoSong when it returns
\* without playing.
NextTarget(cs, pl) ==
    LET currentIndex == getCurrentSongIndex(cs, pl)
    IN  IF Len(pl) = 0 \/ currentIndex = 0 - 1 THEN NoSong
        ELSE pl[NextIndex(currentIndex, Len(pl)) + 1]

\* Lines 189-195.
PreviousTarget(cs, pl) ==
    LET currentIndex == getCurrentSongIndex(cs, pl)
    IN  IF Len(pl) = 0 \/ currentIndex = 0 - 1 THEN NoSong
        ELSE pl[PreviousIndex(currentIndex, Len(pl)) + 1]

\* ------------------------------------------------------- React closures
\* What the status callback created by one render does with the state
\* cells of that render: the playNextSong of line 81 reads currentSong and
\* playlist only to pick its target (lines 174-180), and the playSong it
\* calls reads playbackInstance (line 103).
Render(cs, pl, pi) == [target |-> NextTarget(cs, pl), playbackInstance |-> pi]

\* No status callback registered (setOnPlaybackStatusUpdate(null)).
NoCb == [target |-> NoSong, playbackInstance |-> NoSound]

\* Effect of lines 86-93, run when a commit changes playbackInstance from old
\* to new: its cleanup unregisters the callback of the old sound, its body
\* registers updatePlaybackStatus of the new render on the new sound.
StatusEffect(old, new, cs, pl) ==
    IF old = new THEN onStatus
    ELSE [s \in Sounds |-> IF s = new THEN Render(cs, pl, new)
                           ELSE IF s = old THEN NoCb
                           ELSE onStatus[s]]

\* Cleanup of the effect of lines 60-67, run when a commit changes
\* playbackInstance from old to new: old.unloadAsync() is started and not
\* awaited.  On a sound that is no longer loaded it does nothing.
CleanupEffect(old, new, openAfter) ==
    (IF old # new /\ old \in openAfter THEN unloading \cup {old} ELSE unloading)
        \cap openAfter

\* ------------------------------------------------------ suspended calls
Idle == [op |-> "idle", pc |-> "idle", song |-> NoSong, inst |-> NoSound, arg |-> 0]

Slots     == 1..MaxCalls
FreeSlots == {k \in Slots : calls[k] = Idle}
HasFree   == FreeSlots # {}
FreeSlot  == CHOOSE k \in FreeSlots : \A j \in FreeSlots : k <= j

Suspend(call) == calls' = [calls EXCEPT ![FreeSlot] = call]
Return(k)     == calls' = [calls EXCEPT ![k] = Idle]

\* ------------------------------------------------------------ playSong
\* playSong without the await of line 104: createAsync is called while the
\* instance the closure sees is still loaded.
PlayCallWithoutUnload(song, inst) ==
    [op |-> "playSong", pc |-> "createAsync",
     song |-> song, inst |-> inst, arg |-> 0]

\* Lines 97-106 up to the first await: the unload of the instance this
\* closure sees, or createAsync when it sees none.
PlayCall(song, inst) ==
    [op |-> "playSong",
     pc |-> IF inst # NoSound THEN "unloadAsync" ELSE "createAsync",
     song |-> song, inst |-> inst, arg |-> 0]

\* Lines 99-109 of playSong(song), run by a closure that sees instance inst.
StartPlay(song, inst) ==
    /\ HasFree
    /\ isLoading' = TRUE
    /\ error' = NoError
    /\ Suspend(PlayCall(song, inst))

PlayFrame == UNCHANGED <<currentSong, isPlaying, playbackInstance, duration, position,
                         playlist, playlistSource, open, unloading, onStatus, nextSound>>

playSong(song) ==
    /\ StartPlay(song, playbackInstance)
    /\ PlayFrame
    /\ UNCHANGED <<storeVars, screenVars>>

\* The catch block without the setIsLoading(false) of line 121.
PlayCatchKeepsLoading(k) ==
    /\ error' = "Failed to play song"
    /\ isLoading' = isLoading
    /\ currentSong' = NoSong
    /\ isPlaying' = FALSE
    /\ Return(k)

\* The catch block of playSong, lines 118-124.
PlayCatch(k) ==
    /\ error' = "Failed to play song"
    /\ isLoading' = FALSE
    /\ currentSong' = NoSong
    /\ isPlaying' = FALSE
    /\ Return(k)

\* The runtime answers the unloadAsync of line 104.
PlayUnloadDone(k, ok) ==
    /\ calls[k].op = "playSong" /\ calls[k].pc = "unloadAsync"
    /\ IF ok
       THEN \* line 105, then createAsync of line 109 is called
            /\ open' = open \ {calls[k].inst}
            /\ playbackInstance' = NoSound
            /\ onStatus' = StatusEffect(playbackInstance, NoSound, currentSong, playlist)
            /\ unloading' = CleanupEffect(playbackInstance, NoSound, open')
            /\ calls' = [calls EXCEPT ![k].pc = "createAsync"]
            /\ UNCHANGED <<currentSong, isPlaying, isLoading, error>>
       ELSE /\ PlayCatch(k)
            /\ UNCHANGED <<open, playbackInstance, onStatus, unloading>>
    /\ UNCHANGED <<duration, position, playlist, playlistSource, nextSound>>
    /\ UNCHANGED <<storeVars, screenVars>>

\* The runtime answers the createAsync of line 109.
PlayCreateDone(k, ok) ==
    /\ calls[k].op = "playSong" /\ calls[k].pc = "createAsync"
    /\ IF ok
       THEN \* lines 115-117
            /\ nextSound <= MaxSounds
            /\ open' = open \cup {nextSound}
            /\ nextSound' = nextSound + 1
            /\ playbackInstance' = nextSound
            /\ currentSong' = calls[k].song
            /\ isPlaying' = TRUE
            /\ onStatus' = StatusEffect(playbackInstance, nextSound, calls[k].song, playlist)
            /\ unloading' = CleanupEffect(playbackInstance, nextSound, open')
            /\ Return(k)
            /\ UNCHANGED <<isLoading, error>>
       ELSE /\ PlayCatch(k)
            /\ UNCHANGED <<open, nextSound, playbackInstance, onStatus, unloading>>
    /\ UNCHANGED <<duration, position, playlist, playlistSource>>
    /\ UNCHANGED <<storeVars, screenVars>>

\* The runtime finishes the un-awaited unloadAsync of line 64.
CleanupUnloadDone(s, ok) ==
    /\ s \in unloading
    /\ unloading' = unloading \ {s}
    /\ open' = IF ok THEN open \ {s} ELSE open
    /\ UNCHANGED <<currentSong, isPlaying, isLoading, playbackInstance, duration,
                   position, playlist, error, playlistSource, onStatus, nextSound, calls>>
    /\ UNCHANGED <<storeVars, screenVars>>

\* ------------------------------------------- pauseSong, resumeSong, seekTo
TransportCall(op, inst, arg) ==
    [op |-> op, pc |-> "await", song |-> NoSong, inst |-> inst, arg |-> arg]

EngineFrame == UNCHANGED <<currentSong, isPlaying, isLoading, playbackInstance, duration,
                           position, playlist, error, playlistSource, open, unloading,
                           onStatus, nextSound>>

\* pauseSong without the guard of line 129: the call on null throws and the
\* catch block records it.
pauseSongUnguarded ==
    /\ IF playbackInstance # NoSound
       THEN /\ HasFree /\ Suspend(TransportCall("pauseSong", playbackInstance, 0))
            /\ UNCHANGED error
       ELSE /\ error' = "Failed to pause song"
            /\ UNCHANGED calls
    /\ UNCHANGED <<currentSong, isPlaying, isLoading, playbackInstance, duration,
                   position, playlist, playlistSource, open, unloading,
                   onStatus, nextSound>>
    /\ UNCHANGED <<storeVars, screenVars>>

\* Lines 127-136 up to the await.
pauseSong ==
    /\ IF playbackInstance # NoSound
       THEN HasFree /\ Suspend(TransportCall("pauseSong", playbackInstance, 0))
       ELSE UNCHANGED calls
    /\ EngineFrame
    /\ UNCHANGED <<storeVars, screenVars>>

\* Lines 138-147 up to the await.
resumeSong ==
    /\ IF playbackInstance # NoSound
       THEN HasFree /\ Suspend(TransportCall("resumeSong", playbackInstance, 0))
       ELSE UNCHANGED calls
    /\ EngineFrame
    /\ UNCHANGED <<storeVars, screenVars>>

\* SeekClamp without the upper bound of lines 156-158.
SeekClampLowerOnly(pos, dur) == IF pos < 0 THEN 0 ELSE pos

\* Lines 153-158: the position handed to setPositionAsync.
SeekClamp(pos, dur) ==
    IF pos < 0 THEN 0
    ELSE IF pos > dur THEN dur
    ELSE pos

SeekTargets == (0 - 1)..(MaxMs + 1)

\* Lines 149-160 up to the await.
seekTo(pos) ==
    /\ IF playbackInstance # NoSound
       THEN HasFree /\ Suspend(TransportCall("seekTo", playbackInstance, SeekClamp(pos, duration)))
       ELSE UNCHANGED calls
    /\ EngineFrame
    /\ UNCHANGED <<storeVars, screenVars>>

TransportOps == {"pauseSong", "resumeSong", "seekTo"}

TransportError(op) ==
    CASE op = "pauseSong"  -> "Failed to pause song"
      [] op = "resumeSong" -> "Failed to resume song"
      [] op = "seekTo"     -> "Failed to seek"

\* TransportDone whose catch blocks also clear isPlaying, as playSong's does.
TransportDoneClearsPlaying(k, ok) ==
    /\ calls[k].op \in TransportOps
    /\ ok => calls[k].inst \in open
    /\ error' = IF ok THEN error ELSE TransportError(calls[k].op)
    /\ isPlaying' = IF ok THEN isPlaying ELSE FALSE
    /\ Return(k)
    /\ UNCHANGED <<currentSong, isLoading, playbackInstance, duration,
                   position, playlist, playlistSource, open, unloading, onStatus, nextSound>>
    /\ UNCHANGED <<storeVars, screenVars>>

\* The runtime answers pauseAsync / playAsync / setPositionAsync; it rejects
\* every one of them on a sound that is not loaded.
TransportDone(k, ok) ==
    /\ calls[k].op \in TransportOps
    /\ ok => calls[k].inst \in open
    /\ error' = IF ok THEN error ELSE TransportError(calls[k].op)
    /\ Return(k)
    /\ UNCHANGED <<currentSong, isPlaying, isLoading, playbackInstance, duration,
                   position, playlist, playlistSource, open, unloading, onStatus, nextSound>>
    /\ UNCHANGED <<storeVars, screenVars>>

\* ------------------------------------------------- stopSong, stopPlayback
StopOps == {"stopSong", "stopPlayback"}

StopError(op) ==
    CASE op = "stopSong"     -> "Failed to stop song"
      [] op = "stopPlayback" -> "Failed to stop playback"

\* StopReset with lines 211-212 / 230-231 missing.
StopResetKeepsTelemetry ==
    /\ currentSong' = NoSong
    /\ isPlaying' = FALSE
    /\ UNCHANGED <<position, duration>>

\* Lines 209-212 / 228-231.
StopReset ==
    /\ currentSong' = NoSong
    /\ isPlaying' = FALSE
    /\ position' = 0
    /\ duration' = 0

\* History: the arg of a playSong call in flight is set to 1 when a stop is
\* called, and a stop call carries arg 1 when it was called while a playSong
\* call was in flight.  No code reads it.
StopMark(c) == IF c.op = "playSong" THEN [c EXCEPT !.arg = 1] ELSE c

\* Lines 202-205 / 219-224 up to the first await; with no instance the
\* function runs to its end without suspending.
Stop(op) ==
    /\ IF playbackInstance # NoSound
       THEN /\ HasFree
            /\ calls' = [k \in Slots |->
                           IF k = FreeSlot
                           THEN [op |-> op, pc |-> "stopAsync", song |-> NoSong,
                                 inst |-> playbackInstance,
                                 arg |-> IF \E j \in Slots : calls[j].op = "playSong"
                                         THEN 1 ELSE 0]
                           ELSE StopMark(calls[k])]
            /\ UNCHANGED <<currentSong, isPlaying, position, duration>>
       ELSE /\ StopReset
            /\ calls' = [k \in Slots |-> StopMark(calls[k])]
    /\ UNCHANGED <<isLoading, playbackInstance, playlist, error, playlistSource,
                   open, unloading, onStatus, nextSound>>
    /\ UNCHANGED <<storeVars, screenVars>>

stopSong == Stop("stopSong")

stopPlayback == Stop("stopPlayback")

\* The runtime answers the stopAsync of line 205 / 224.
StopAsyncDone(k, ok) ==
    /\ calls[k].op \in StopOps /\ calls[k].pc = "stopAsync"
    /\ ok => calls[k].inst \in open
    /\ IF ok
       THEN calls' = [calls EXCEPT ![k].pc = "unloadAsync"] /\ UNCHANGED error
       ELSE error' = StopError(calls[k].op) /\ Return(k)
    /\ UNCHANGED <<currentSong, isPlaying, isLoading, playbackInstance, duration,
                   position, playlist, playlistSource, open, unloading, onStatus, nextSound>>
    /\ UNCHANGED <<storeVars, screenVars>>

\* The runtime answers the unloadAsync of line 206 / 225.
StopUnloadDone(k, ok) ==
    /\ calls[k].op \in StopOps /\ calls[k].pc = "unloadAsync"
    /\ IF ok
       THEN /\ open' = open \ {calls[k].inst}
            /\ playbackInstance' = NoSound
            /\ onStatus' = StatusEffect(playbackInstance, NoSound, NoSong, playlist)
            /\ unloading' = CleanupEffect(playbackInstance, NoSound, open')
            /\ StopReset
            /\ UNCHANGED error
       ELSE /\ error' = StopError(calls[k].op)
            /\ UNCHANGED <<open, playbackInstance, onStatus, unloading,
                           currentSong, isPlaying, position, duration>>
    /\ Return(k)
    /\ UNCHANGED <<isLoading, playlist, playlistSource, nextSound>>
    /\ UNCHANGED <<storeVars, screenVars>>

\* ------------------------------------------ playNextSong, playPreviousSong
\* playNextSong called by a screen.
playNextSong ==
    LET target == NextTarget(currentSong, playlist)
    IN  /\ IF target = NoSong
           THEN UNCHANGED <<isLoading, error, calls>>
           ELSE StartPlay(target, playbackInstance)
        /\ PlayFrame
        /\ UNCHANGED <<storeVars, screenVars>>

\* playPreviousSong called by a screen.
playPreviousSong ==
    LET target == PreviousTarget(currentSong, playlist)
    IN  /\ IF target = NoSong
           THEN UNCHANGED <<isLoading, error, calls>>
           ELSE StartPlay(target, playbackInstance)
        /\ PlayFrame
        /\ UNCHANGED <<storeVars, screenVars>>

\* ------------------------------------------------- updatePlaybackStatus
\* AVPlaybackStatus payloads; one representative of the not-loaded ones.
Statuses ==
    {st \in [isLoaded : BOOLEAN, isPlaying : BOOLEAN, durationMillis : 0..MaxMs,
             positionMillis : 0..MaxMs, didJustFinish : BOOLEAN] :
        ~st.isLoaded => (~st.isPlaying /\ st.durationMillis = 0
                         /\ st.positionMillis = 0 /\ ~st.didJustFinish)}

\* Lines 71-83, run by the callback registered on sound s; the playNextSong
\* of line 81 is the one of the callback's own render.
updatePlaybackStatus(s, status) ==
    /\ onStatus[s] # NoCb
    /\ status.isLoaded => s \in open
    /\ IF ~status.isLoaded
       THEN UNCHANGED engineVars
       ELSE LET env    == onStatus[s]
                target == env.target
            IN  /\ isPlaying' = status.isPlaying
                /\ duration' = status.durationMillis
                /\ position' = status.positionMillis
                /\ IF status.didJustFinish /\ target # NoSong
                   THEN StartPlay(target, env.playbackInstance)
                   ELSE isLoading' = FALSE /\ UNCHANGED <<error, calls>>
                /\ UNCHANGED <<currentSong, playbackInstance, playlist, playlistSource,
                               open, unloading, onStatus, nextSound>>
    /\ UNCHANGED <<storeVars, screenVars>>

\* ------------------------------------------------ queue and source tag
\* Lines 239-241.
setPlaylistAndUpdateCurrent(songs) ==
    /\ playlist' = songs
    /\ UNCHANGED <<currentSong, isPlaying, isLoading, playbackInstance, duration,
                   position, error, playlistSource, open, unloading, onStatus,
                   nextSound, calls>>
    /\ UNCHANGED <<storeVars, screenVars>>

\* Line 38, the setter of the playlistSource cell.
setPlaylistSource(source) ==
    /\ playlistSource' = source
    /\ UNCHANGED <<currentSong, isPlaying, isLoading, playbackInstance, duration,
                   position, playlist, error, open, unloading, onStatus,
                   nextSound, calls>>
    /\ UNCHANGED <<storeVars, screenVars>>

\* ------------------------------------------------- play-playlist taps
\* The tags the two playlist screens write: PlaylistScreen 'playlist',
\* PlaylistDetailScreen 'playlist-detail'.
ScreenTags == {"playlist", "playlist-detail"}

\* The test of handlePlayPlaylist (playlist-detail.tsx line 90, PlaylistScreen
\* line 134) on the screen that writes tag, were the source cell to hold
\* source: the playlist's first song is current and playing and the queue
\* came from this screen.
AlreadyPlaying(songs, tag, source) ==
    /\ currentSong # NoSong
    /\ currentSong.id = songs[1].id
    /\ isPlaying
    /\ source = tag

\* handlePlayPlaylist of the screen that writes tag, tapped on a playlist with
\* these songs.  An empty playlist only shows a toast; when the test holds the
\* handler only navigates to the player; otherwise it replaces the queue,
\* writes its tag and calls playSong with the first song.
handlePlayPlaylist(songs, tag) ==
    /\ Len(songs) > 0
    /\ IF AlreadyPlaying(songs, tag, playlistSource)
       THEN UNCHANGED engineVars
       ELSE /\ playlist' = songs
            /\ playlistSource' = tag
            /\ StartPlay(songs[1], playbackInstance)
            /\ UNCHANGED <<currentSong, isPlaying, playbackInstance, duration,
                           position, open, unloading, onStatus, nextSound>>
    /\ UNCHANGED <<storeVars, screenVars>>

\* The test of the song-row handlers (LibraryScreen handlePlaySong line 61,
\* playlist-detail.tsx line 149): this song is current and playing.
SongAlreadyPlaying(song) ==
    /\ currentSong # NoSong
    /\ currentSong.id = song.id
    /\ isPlaying

\* What the play handlers of the screens do after their tests: replace the
\* queue, write their tag and call playSong, all before the first await.
PlayFrom(songs, tag, song) ==
    /\ playlist' = songs
    /\ playlistSource' = tag
    /\ StartPlay(song, playbackInstance)
    /\ UNCHANGED <<currentSong, isPlaying, playbackInstance, duration,
                   position, open, unloading, onStatus, nextSound>>

\* handlePlaySong of LibraryScreen (part_001 lines 58-77): a tap on a song of
\* the library.
libraryHandlePlaySong(song) ==
    /\ IF SongAlreadyPlaying(song)
       THEN UNCHANGED engineVars
       ELSE PlayFrom(<<song>>, "library", song)
    /\ UNCHANGED <<storeVars, screenVars>>

\* handleShufflePlay of the playlist-detail screen (playlist-detail.tsx lines
\* 112-142), shuffledSongs being the shuffle Math.random produced.
handleShufflePlay(shuffledSongs) ==
    /\ Len(shuffledSongs) > 0
    /\ PlayFrom(shuffledSongs, "playlist-detail", shuffledSongs[1])
    /\ UNCHANGED <<storeVars, screenVars>>

\* handlePlaySong of the playlist-detail screen (playlist-detail.tsx lines
\* 144-163): a tap on the row of song in a playlist with these songs.
handlePlaySong(songs, song) ==
    /\ IF SongAlreadyPlaying(song)
       THEN UNCHANGED engineVars
       ELSE PlayFrom(songs, "playlist-detail", song)
    /\ UNCHANGED <<storeVars, screenVars>>

\* renderSongItem of the playlist-detail screen (playlist-detail.tsx lines
\* 212-214): the row of item shows the now-playing highlight.
showNowPlaying(item) ==
    /\ currentSong # NoSong
    /\ currentSong.id = item.id
    /\ playlistSource = "playlist-detail"

\* ------------------------------------------------------------- engine
\* State after the provider has mounted and initAudio (lines 41-57) has
\* settled, with or without an error.
EngineInit ==
    /\ currentSong = NoSong
    /\ isPlaying = FALSE
    /\ isLoading = FALSE
    /\ playbackInstance = NoSound
    /\ duration = 0
    /\ position = 0
    /\ playlist = <<>>
    /\ error \in {NoError, "Failed to initialize audio"}
    /\ playlistSource = "library"
    /\ open = {}
    /\ unloading = {}
    /\ onStatus = [s \in Sounds |-> NoCb]
    /\ nextSound = 1
    /\ calls = [k \in Slots |-> Idle]

\* ------------------------------------------------------ playlist store
NoCover    == 0                                  \* coverImage: undefined
NoPlaylist == [id |-> 0, name |-> "", songs |-> <<>>, createdAt |-> 0,
               updatedAt |-> 0, coverImage |-> NoCover]
NoItem     == [stored |-> FALSE, json |-> <<>>]  \* getItem: nothing stored

PlaylistIds == 1..MaxPlaylists
StoreSongs  == {[id |-> i, coverImage |-> i] : i \in 1..NumStoreSongs}
Names       == {"Road Trip"}
StoreSlots  == 1..MaxStoreCalls

\* JSON.stringify of one playlist: a key whose value is undefined is left out.
StringifyPlaylist(p) ==
    IF p.coverImage = NoCover
    THEN [id |-> p.id, name |-> p.name, songs |-> p.songs,
          createdAt |-> p.createdAt, updatedAt |-> p.updatedAt]
    ELSE p

\* JSON.parse of one playlist: reading a key that is absent gives undefined.
ParsePlaylist(j) ==
    [id |-> j.id, name |-> j.name, songs |-> j.songs, createdAt |-> j.createdAt,
     updatedAt |-> j.updatedAt,
     coverImage |-> IF "coverImage" \in DOMAIN j THEN j.coverImage ELSE NoCover]

\* JSON.stringify(playlists), lines 38 and 64.
Stringify(playlists) ==
    [stored |-> TRUE,
     json |-> [i \in 1..Len(playlists) |-> StringifyPlaylist(playlists[i])]]

\* Line 19: playlistsJson ? JSON.parse(playlistsJson) : [].
Parse(item) ==
    IF ~item.stored THEN <<>>
    ELSE [i \in 1..Len(item.json) |-> ParsePlaylist(item.json[i])]

\* Lines 16-24: what getPlaylists returns when getItem answers with ok.
getPlaylists(ok) == IF ok THEN Parse(storage) ELSE <<>>

\* playlists.findIndex(p => p.id === id), 0-based, -1 when absent.
FindPlaylist(playlists, id) ==
    LET hits == {i \in 1..Len(playlists) : playlists[i].id = id}
    IN  IF hits = {} THEN 0 - 1
        ELSE (CHOOSE i \in hits : \A j \in hits : i <= j) - 1

\* Upsert that keeps the stored entry of the same id instead of replacing it.
UpsertKeepsStored(playlists, p) ==
    IF FindPlaylist(playlists, p.id) > 0 - 1 THEN playlists ELSE Append(playlists, p)

\* Upsert without the findIndex of line 30: always push.
UpsertAlwaysPushes(playlists, p) == Append(playlists, p)

\* Lines 30-36 of savePlaylist: replace the entry of the same id or append.
Upsert(playlists, p) ==
    LET existingIndex == FindPlaylist(playlists, p.id)
    IN  IF existingIndex > 0 - 1
        THEN [playlists EXCEPT ![existingIndex + 1] = p]
        ELSE Append(playlists, p)

\* Lines 84-91 of addSongToPlaylist, for a song that is not in the playlist.
WithSongAdded(p, song) ==
    LET songs == Append(p.songs, song)
    IN  [p EXCEPT !.songs = songs,
                  !.updatedAt = clock,
                  !.coverImage = IF p.coverImage = NoCover /\ Len(songs) > 0
                                 THEN songs[1].coverImage ELSE p.coverImage]

\* HasSong that never finds the song.
HasSongNever(p, songId) == FALSE

\* HasSong that looks at the first song only.
HasSongFirstOnly(p, songId) == Len(p.songs) > 0 /\ p.songs[1].id = songId

\* Line 84: playlist.songs.some(s => s.id === song.id).
HasSong(p, songId) == \E i \in 1..Len(p.songs) : p.songs[i].id = songId

\* Lines 114-122 of removeSongFromPlaylist.
WithSongRemoved(p, songId) ==
    LET Keep(x) == x.id # songId
        songs   == SelectSeq(p.songs, Keep)
    IN  [p EXCEPT !.songs = songs,
                  !.updatedAt = clock,
                  !.coverImage = IF Len(songs) > 0 THEN songs[1].coverImage ELSE NoCover]

\* Move that exchanges the two positions.
MoveBySwap(songs, from, to) ==
    [i \in 1..Len(songs) |-> IF i = from + 1 THEN songs[to + 1]
                             ELSE IF i = to + 1 THEN songs[from + 1]
                             ELSE songs[i]]

\* splice(from, 1) then splice(to, 0, moved), 0-based indices.
Move(songs, from, to) ==
    LET moved == songs[from + 1]
        rest  == [i \in 1..(Len(songs) - 1) |-> IF i <= from THEN songs[i] ELSE songs[i + 1]]
    IN  [i \in 1..Len(songs) |-> IF i <= to THEN rest[i]
                                 ELSE IF i = to + 1 THEN moved
                                 ELSE rest[i - 1]]

\* reorderSongsInPlaylist for valid, different indices.
WithSongMoved(p, from, to) ==
    [p EXCEPT !.songs = Move(p.songs, from, to), !.updatedAt = clock]

\* A slot with no suspended call.  ioFailed records that the Durable Store
\* rejected a getItem of the call and getPlaylists swallowed it (lines 20-23).
StoreIdle == [op |-> "idle", pc |-> "idle", playlistId |-> 0, song |-> NoSong,
              from |-> 0, to |-> 0, playlist |-> NoPlaylist, data |-> <<>>,
              ioFailed |-> FALSE]

FreeStoreSlots == {k \in StoreSlots : storeCalls[k] = StoreIdle}
FreeStoreSlot  == CHOOSE k \in FreeStoreSlots : \A j \in FreeStoreSlots : k <= j

\* A service call starts and suspends at its first await.
StoreSuspend(call) ==
    /\ FreeStoreSlots # {}
    /\ storeCalls' = [storeCalls EXCEPT ![FreeStoreSlot] = call]
    /\ outcome' = "none"
    /\ started < MaxStoreOps
    /\ started' = started + 1

\* The call of slot k returns ("ok", or "null" from getPlaylist) or throws
\* (status names the error).
StoreReturn(k, status) ==
    /\ storeCalls' = [storeCalls EXCEPT ![k] = StoreIdle]
    /\ outcome' = status

\* loadPlaylistData of PlaylistDetailScreen suspended in its getPlaylist.
LoadCall(playlistId) ==
    [StoreIdle EXCEPT !.op = "loadPlaylistData", !.pc = "read", !.playlistId = playlistId]

\* The call of slot k throws.  The reorder started by onDragEnd has a catch
\* handler that reloads the screen (part_000 lines 569-574).
StoreThrow(k, status) ==
    IF storeCalls[k].op = "onDragEnd"
    THEN /\ storeCalls' = [storeCalls EXCEPT ![k] = LoadCall(storeCalls[k].playlistId)]
         /\ outcome' = status
    ELSE StoreReturn(k, status)

\* The call of slot k enters savePlaylist(p) and suspends in its getPlaylists.
EnterSave(k, p) ==
    /\ storeCalls' = [storeCalls EXCEPT ![k].pc = "saveRead", ![k].playlist = p]
    /\ outcome' = "none"

\* Lines 46-55: createPlaylist up to the getItem of savePlaylist.
createPlaylist(name) ==
    /\ nextId <= MaxPlaylists
    /\ StoreSuspend([StoreIdle EXCEPT !.op = "createPlaylist", !.pc = "saveRead",
                       !.playlist = [id |-> nextId, name |-> name, songs |-> <<>>,
                                     createdAt |-> clock, updatedAt |-> clock,
                                     coverImage |-> NoCover]])
    /\ nextId' = nextId + 1
    /\ UNCHANGED <<storage, clock>>
    /\ UNCHANGED <<engineVars, screenVars>>

\* Lines 60-62.
deletePlaylist(playlistId) ==
    /\ StoreSuspend([StoreIdle EXCEPT !.op = "deletePlaylist", !.pc = "read",
                       !.playlistId = playlistId])
    /\ UNCHANGED <<storage, clock, nextId>>
    /\ UNCHANGED <<engineVars, screenVars>>

\* Lines 72-74.
addSongToPlaylist(playlistId, song) ==
    /\ StoreSuspend([StoreIdle EXCEPT !.op = "addSongToPlaylist", !.pc = "read",
                       !.playlistId = playlistId, !.song = song])
    /\ UNCHANGED <<storage, clock, nextId>>
    /\ UNCHANGED <<engineVars, screenVars>>

\* Lines 104-106.
removeSongFromPlaylist(playlistId, songId) ==
    /\ StoreSuspend([StoreIdle EXCEPT !.op = "removeSongFromPlaylist", !.pc = "read",
                       !.playlistId = playlistId, !.song = [id |-> songId, coverImage |-> 0]])
    /\ UNCHANGED <<storage, clock, nextId>>
    /\ UNCHANGED <<engineVars, screenVars>>

\* reorderSongsInPlaylist up to its first read.
reorderSongsInPlaylist(playlistId, from, to) ==
    /\ StoreSuspend([StoreIdle EXCEPT !.op = "reorderSongsInPlaylist", !.pc = "read",
                       !.playlistId = playlistId, !.from = from, !.to = to])
    /\ UNCHANGED <<storage, clock, nextId>>
    /\ UNCHANGED <<engineVars, screenVars>>

\* Lines 132-134.
getPlaylist(playlistId) ==
    /\ StoreSuspend([StoreIdle EXCEPT !.op = "getPlaylist", !.pc = "read",
                       !.playlistId = playlistId])
    /\ UNCHANGED <<storage, clock, nextId>>
    /\ UNCHANGED <<engineVars, screenVars>>

\* loadPlaylistData of PlaylistDetailScreen (part_000 lines 80-84) up to its
\* await; the screen shows one playlist for as long as it is mounted.
loadPlaylistData(playlistId) ==
    /\ shown = NoPlaylist \/ shown.id = playlistId
    /\ StoreSuspend(LoadCall(playlistId))
    /\ UNCHANGED <<storage, clock, nextId, shown>>
    /\ UNCHANGED engineVars

\* onDragEnd of PlaylistDetailScreen (part_000 lines 555-576): the list hands
\* over two positions of the rows it shows; the screen moves the song in its
\* own copy and starts reorderSongsInPlaylist without awaiting it.
onDragEnd(from, to) ==
    /\ shown # NoPlaylist
    /\ from < Len(shown.songs) /\ to < Len(shown.songs)
    /\ from # to
    /\ shown' = [shown EXCEPT !.songs = Move(shown.songs, from, to)]
    /\ StoreSuspend([StoreIdle EXCEPT !.op = "onDragEnd", !.pc = "read",
                       !.playlistId = shown.id, !.from = from, !.to = to])
    /\ UNCHANGED <<storage, clock, nextId>>
    /\ UNCHANGED engineVars

\* The Durable Store answers the getItem of a call's own getPlaylists(); the
\* call runs on to its next await, its return or its throw.
StoreRead(k, ok) ==
    LET c         == storeCalls[k]
        playlists == getPlaylists(ok)
        index     == FindPlaylist(playlists, c.playlistId)
        found     == playlists[index + 1]
    IN  /\ c.pc = "read"
        /\ CASE c.op = "deletePlaylist" ->
                  \* lines 63-64
                  LET Keep(p) == p.id # c.playlistId
                  IN  /\ storeCalls' = [storeCalls EXCEPT ![k].pc = "write",
                                           ![k].data = SelectSeq(playlists, Keep),
                                           ![k].ioFailed = ~ok]
                      /\ outcome' = "none"
             [] c.op = "addSongToPlaylist" ->
                  \* lines 75-96
                  IF index = 0 - 1 THEN StoreReturn(k, "Playlist not found")
                  ELSE IF HasSong(found, c.song.id)
                       THEN StoreReturn(k, "Song already exists in playlist")
                       ELSE EnterSave(k, WithSongAdded(found, c.song))
             [] c.op = "removeSongFromPlaylist" ->
                  \* lines 107-124
                  IF index = 0 - 1 THEN StoreReturn(k, "Playlist not found")
                  ELSE EnterSave(k, WithSongRemoved(found, c.song.id))
             [] c.op \in {"reorderSongsInPlaylist", "onDragEnd"} ->
                  IF index = 0 - 1 THEN StoreThrow(k, "Playlist not found")
                  ELSE IF c.from >= Len(found.songs) \/ c.to >= Len(found.songs)
                       THEN StoreThrow(k, "Invalid index")
                       ELSE IF c.from = c.to THEN StoreReturn(k, "ok")
                            ELSE EnterSave(k, WithSongMoved(found, c.from, c.to))
             [] c.op = "getPlaylist" ->
                  \* line 135
                  IF index = 0 - 1 THEN StoreReturn(k, "null")
                  ELSE StoreReturn(k, "ok")
             [] c.op = "loadPlaylistData" ->
                  \* part_000 lines 83-94
                  IF index = 0 - 1 THEN StoreReturn(k, "null")
                  ELSE StoreReturn(k, "ok")
        /\ shown' = IF c.op = "loadPlaylistData"
                    THEN IF index = 0 - 1 THEN NoPlaylist ELSE found
                    ELSE shown
        /\ UNCHANGED <<storage, clock, nextId, started>>
        /\ UNCHANGED engineVars

\* The Durable Store answers the getItem of savePlaylist (line 29); lines
\* 30-38 run up to the setItem.
StoreSaveRead(k, ok) ==
    /\ storeCalls[k].pc = "saveRead"
    /\ storeCalls' = [storeCalls EXCEPT ![k].pc = "write",
                         ![k].data = Upsert(getPlaylists(ok), storeCalls[k].playlist),
                         ![k].ioFailed = ~ok]
    /\ outcome' = "none"
    /\ UNCHANGED <<storage, clock, nextId, started>>
    /\ UNCHANGED <<engineVars, screenVars>>

\* The Durable Store answers the setItem of line 38 or 64.
StoreWrite(k, ok) ==
    /\ storeCalls[k].pc = "write"
    /\ storage' = IF ok THEN Stringify(storeCalls[k].data) ELSE storage
    /\ IF ok
       THEN StoreReturn(k, "ok")
       ELSE StoreThrow(k, "Durable Store failure")
    /\ UNCHANGED <<clock, nextId, started>>
    /\ UNCHANGED <<engineVars, screenVars>>

\* Time passes.
Tick ==
    /\ clock < MaxClock
    /\ clock' = clock + 1
    /\ UNCHANGED <<storage, nextId, started, storeCalls, outcome>>
    /\ UNCHANGED <<engineVars, screenVars>>

\* A playlist an earlier run of the app stored: created at time 0 and filled
\* with the first two songs.
StoredPlaylist ==
    [id |-> 1, name |-> "Road Trip",
     songs |-> <<[id |-> 1, coverImage |-> 1], [id |-> 2, coverImage |-> 2]>>,
     createdAt |-> 0, updatedAt |-> 0, coverImage |-> 1]

\* The app starts on a fresh installation (nothing stored under
\* PLAYLISTS_KEY) or on what an earlier run left in the Durable Store.
StoreInit ==
    /\ storage \in {NoItem, Stringify(<<StoredPlaylist>>)}
    /\ clock = 0
    /\ nextId = Len(Parse(storage)) + 1
    /\ storeCalls = [k \in StoreSlots |-> StoreIdle]
    /\ started = 0
    /\ outcome = "none"

\* PlaylistDetailScreen is not mounted.
ScreenInit == shown = NoPlaylist

Init == EngineInit /\ StoreInit /\ ScreenInit

\* Overlapping playSong calls and the runtime's answers.
PlayNext ==
    \/ \E song \in Songs : playSong(song)
    \/ \E k \in Slots, ok \in BOOLEAN : PlayUnloadDone(k, ok)
    \/ \E k \in Slots, ok \in BOOLEAN : PlayCreateDone(k, ok)
    \/ \E s \in Sounds, ok \in BOOLEAN : CleanupUnloadDone(s, ok)

SpecPlay == Init /\ [][PlayNext]_vars

\* No playSong call is suspended.
NoPlaySuspended == \A k \in Slots : calls[k].op # "playSong"

\* One playSong call at a time, and the runtime's answers to it.
OnePlayNext ==
    \/ NoPlaySuspended /\ \E song \in Songs : playSong(song)
    \/ \E k \in Slots, ok \in BOOLEAN : PlayUnloadDone(k, ok)
    \/ \E k \in Slots, ok \in BOOLEAN : PlayCreateDone(k, ok)

\* No stopSong / stopPlayback call is suspended.
NoStopSuspended == \A k \in Slots : calls[k].op \notin StopOps

\* Stopping, one stop at a time, overlapping with a playSong call.
StopNext ==
    \/ OnePlayNext
    \/ \E s \in Sounds, ok \in BOOLEAN : CleanupUnloadDone(s, ok)
    \/ NoStopSuspended /\ stopSong
    \/ NoStopSuspended /\ stopPlayback
    \/ \E k \in Slots, ok \in BOOLEAN : StopAsyncDone(k, ok)
    \/ \E k \in Slots, ok \in BOOLEAN : StopUnloadDone(k, ok)
    \/ \E s \in Sounds, status \in Statuses :
          ~status.didJustFinish /\ updatePlaybackStatus(s, status)

SpecStop == Init /\ [][StopNext]_vars

\* No provider call is suspended.
Quiescent == \A k \in Slots : calls[k] = Idle

\* Status payloads with the telemetry fields tied together; navigation reads
\* none of them.
QueueStatuses ==
    {st \in Statuses : st.isLoaded =>
        (st.durationMillis = MaxMs /\ st.positionMillis = MaxMs)}

\* Queue replacement, navigation and auto-advance in serial use of the
\* engine: a screen or the runtime starts a call only when no other call is
\* suspended.  The unloadAsync of the cleanup effect then always finds its
\* sound unloaded already.
QueueNext ==
    \/ Quiescent /\ \E song \in Songs : playSong(song)
    \/ \E k \in Slots, ok \in BOOLEAN : PlayUnloadDone(k, ok)
    \/ \E k \in Slots, ok \in BOOLEAN : PlayCreateDone(k, ok)
    \/ Quiescent /\ playNextSong
    \/ Quiescent /\ playPreviousSong
    \/ \E s \in Sounds, status \in QueueStatuses :
          (status.didJustFinish => Quiescent) /\ updatePlaybackStatus(s, status)
    \/ \E songs \in Queues : setPlaylistAndUpdateCurrent(songs)

SpecQueue == Init /\ [][QueueNext]_vars

\* Play taps on the two playlist screens, one playSong call at a time, and
\* the runtime's answers.
SourceNext ==
    \/ Quiescent /\ \E songs \in Queues, tag \in ScreenTags : handlePlayPlaylist(songs, tag)
    \/ \E k \in Slots, ok \in BOOLEAN : PlayUnloadDone(k, ok)
    \/ \E k \in Slots, ok \in BOOLEAN : PlayCreateDone(k, ok)

SpecSource == Init /\ [][SourceNext]_vars

\* The runtime delivers a loaded status that is not the end of the song to
\* the callback registered on the sound the provider holds.
FirstStatus ==
    \E status \in QueueStatuses :
        /\ playbackInstance # NoSound
        /\ status.isLoaded /\ ~status.didJustFinish
        /\ updatePlaybackStatus(playbackInstance, status)

\* Overlapping Play taps on the listed playlist, the runtime's answers and
\* its status updates, with the playSong calls of the auto-advance.
LoadingNext ==
    \/ handlePlayPlaylist(StoredPlaylist.songs, "playlist")
    \/ \E k \in Slots, ok \in BOOLEAN : PlayUnloadDone(k, ok)
    \/ \E k \in Slots, ok \in BOOLEAN : PlayCreateDone(k, ok)
    \/ \E s \in Sounds, ok \in BOOLEAN : CleanupUnloadDone(s, ok)
    \/ \E s \in Sounds, status \in QueueStatuses : updatePlaybackStatus(s, status)

\* The runtime answers every unloadAsync and createAsync and keeps reporting
\* the status of a loaded sound.
LoadingFairness ==
    /\ \A k \in Slots : WF_vars(\E ok \in BOOLEAN : PlayUnloadDone(k, ok))
    /\ \A k \in Slots : WF_vars(\E ok \in BOOLEAN : PlayCreateDone(k, ok))
    /\ WF_vars(FirstStatus)

\* The provider has mounted without an error and nothing is stored yet.
LoadingInit == Init /\ error = NoError /\ storage = NoItem

SpecLoading == LoadingInit /\ [][LoadingNext]_vars /\ LoadingFairness

\* The rows of the playlist the playlist screens show, and the orders a
\* shuffle can put them in.
PlaylistSongs == StoredPlaylist.songs
Shuffles ==
    {q \in Queues : /\ Len(q) = Len(PlaylistSongs)
                    /\ \A i \in 1..Len(q) : \E j \in 1..Len(q) : q[j] = PlaylistSongs[i]}

\* A tap on one of the play handlers of the screens.
Tap ==
    \/ \E song \in Songs : libraryHandlePlaySong(song)
    \/ \E tag \in ScreenTags : handlePlayPlaylist(PlaylistSongs, tag)
    \/ \E shuffledSongs \in Shuffles : handleShufflePlay(shuffledSongs)
    \/ \E i \in 1..Len(PlaylistSongs) : handlePlaySong(PlaylistSongs, PlaylistSongs[i])

\* The provider has mounted without an error and the playlist is stored.
TapsInit == Init /\ error = NoError /\ storage = Stringify(<<StoredPlaylist>>)

\* Taps on the screens' play handlers without waiting for the playSong call
\* of an earlier tap, and the runtime's answers.
TapsNext ==
    \/ Tap
    \/ \E k \in Slots, ok \in BOOLEAN : PlayUnloadDone(k, ok)
    \/ \E k \in Slots, ok \in BOOLEAN : PlayCreateDone(k, ok)
    \/ \E s \in Sounds, ok \in BOOLEAN : CleanupUnloadDone(s, ok)

SpecTaps == TapsInit /\ [][TapsNext]_vars

\* The same taps in serial use, with the runtime's status updates: a tap is
\* made only when no playSong call is in flight.
SerialTapsNext ==
    \/ Quiescent /\ Tap
    \/ \E k \in Slots, ok \in BOOLEAN : PlayUnloadDone(k, ok)
    \/ \E k \in Slots, ok \in BOOLEAN : PlayCreateDone(k, ok)
    \/ \E s \in Sounds, status \in QueueStatuses :
          ~status.didJustFinish /\ updatePlaybackStatus(s, status)

SpecSerialTaps == TapsInit /\ [][SerialTapsNext]_vars

\* No pauseSong / resumeSong / seekTo call is suspended.
NoTransportSuspended == \A k \in Slots : calls[k].op \notin TransportOps

\* Transport controls, one at a time, overlapping with a playSong call.
\* With one playSong at a time the unloadAsync of the cleanup effect always
\* finds its sound unloaded already.
TransportNext ==
    \/ OnePlayNext
    \/ NoTransportSuspended /\ pauseSong
    \/ NoTransportSuspended /\ resumeSong
    \/ NoTransportSuspended /\ \E pos \in SeekTargets : seekTo(pos)
    \/ \E k \in Slots, ok \in BOOLEAN : TransportDone(k, ok)
    \/ \E s \in Sounds, status \in Statuses :
          ~status.didJustFinish /\ updatePlaybackStatus(s, status)

SpecTransport == Init /\ [][TransportNext]_vars

\* Ids of the playlists created so far: the screens pass the service only
\* ids of playlists they have listed.
IssuedIds == {id \in PlaylistIds : id < nextId}

\* A screen calls the playlist service.
StoreCall ==
    \/ \E name \in Names : createPlaylist(name)
    \/ \E id \in IssuedIds : deletePlaylist(id)
    \/ \E id \in IssuedIds, song \in StoreSongs : addSongToPlaylist(id, song)
    \/ \E id \in IssuedIds, song \in StoreSongs : removeSongFromPlaylist(id, song.id)
    \/ \E id \in IssuedIds, from, to \in 0..(NumStoreSongs - 1) :
          reorderSongsInPlaylist(id, from, to)
    \/ \E id \in IssuedIds : getPlaylist(id)

\* The Durable Store answers a getItem or setItem.
StoreAnswer ==
    \/ \E k \in StoreSlots, ok \in BOOLEAN : StoreRead(k, ok)
    \/ \E k \in StoreSlots, ok \in BOOLEAN : StoreSaveRead(k, ok)
    \/ \E k \in StoreSlots, ok \in BOOLEAN : StoreWrite(k, ok)

\* The playlist service under overlapping calls, all within one tick of the
\* clock.
StoreNext ==
    \/ StoreCall
    \/ StoreAnswer

SpecStore == Init /\ [][StoreNext]_vars

\* No playlist service call is suspended.
StoreQuiet == \A k \in StoreSlots : storeCalls[k] = StoreIdle

\* The playlist service in serial use while time passes: a screen awaits
\* each call before it makes the next one.
SerialStoreNext ==
    \/ StoreQuiet /\ StoreCall
    \/ StoreAnswer
    \/ Tick

SpecSerialStore == Init /\ [][SerialStoreNext]_vars

\* PlaylistDetailScreen loading and reordering its playlist next to the other
\* screens' calls of the service, in serial use.
DetailScreenNext ==
    \/ StoreQuiet /\ StoreCall
    \/ StoreQuiet /\ \E id \in IssuedIds : loadPlaylistData(id)
    \/ StoreQuiet /\ \E from, to \in 0..(NumStoreSongs - 1) : onDragEnd(from, to)
    \/ StoreAnswer

SpecDetailScreen == Init /\ [][DetailScreenNext]_vars

\* A playlist an earlier run of the app stored with these songs.
StoredWith(songs) ==
    [StoredPlaylist EXCEPT !.songs = songs,
                           !.coverImage = IF Len(songs) > 0 THEN songs[1].coverImage
                                          ELSE NoCover]

\* The app starts on one stored playlist of up to MaxQueue songs.
ReorderInit ==
    /\ EngineInit
    /\ ScreenInit
    /\ \E songs \in Queues : storage = Stringify(<<StoredWith(songs)>>)
    /\ clock = 0
    /\ nextId = 2
    /\ storeCalls = [k \in StoreSlots |-> StoreIdle]
    /\ started = 0
    /\ outcome = "none"

\* Reordering a stored playlist, by dragging a row of PlaylistDetailScreen or
\* by calling the service, in serial use.
ReorderNext ==
    \/ StoreQuiet /\ \E id \in IssuedIds : loadPlaylistData(id)
    \/ StoreQuiet /\ \E from, to \in 0..(MaxQueue - 1) : onDragEnd(from, to)
    \/ StoreQuiet /\ \E id \in IssuedIds, from, to \in 0..(MaxQueue - 1) :
                        reorderSongsInPlaylist(id, from, to)
    \/ StoreAnswer

SpecReorder == ReorderInit /\ [][ReorderNext]_vars

\* The app starts on one stored playlist that holds none, the first or both
\* of the songs of StoredPlaylist.
RaceInit ==
    /\ EngineInit
    /\ ScreenInit
    /\ \E n \in 0..Len(StoredPlaylist.songs) :
          storage = Stringify(<<StoredWith(SubSeq(StoredPlaylist.songs, 1, n))>>)
    /\ clock = 0
    /\ nextId = 2
    /\ storeCalls = [k \in StoreSlots |-> StoreIdle]
    /\ started = 0
    /\ outcome = "none"

\* Screens adding and removing songs of stored playlists and deleting
\* playlists without awaiting one another, so that calls overlap, and the
\* Durable Store's answers.
RaceNext ==
    \/ \E id \in IssuedIds : deletePlaylist(id)
    \/ \E id \in IssuedIds, song \in StoreSongs : addSongToPlaylist(id, song)
    \/ \E id \in IssuedIds, song \in StoreSongs : removeSongFromPlaylist(id, song.id)
    \/ StoreAnswer

SpecRace == RaceInit /\ [][RaceNext]_vars

\* The playlist service under overlapping calls while time passes.
TimedStoreNext ==
    \/ StoreNext
    \/ Tick

SpecTimedStore == Init /\ [][TimedStoreNext]_vars

EngineNext ==
    \/ \E song \in Songs : playSong(song)
    \/ \E k \in Slots, ok \in BOOLEAN : PlayUnloadDone(k, ok)
    \/ \E k \in Slots, ok \in BOOLEAN : PlayCreateDone(k, ok)
    \/ \E s \in Sounds, ok \in BOOLEAN : CleanupUnloadDone(s, ok)
    \/ pauseSong
    \/ resumeSong
    \/ \E pos \in SeekTargets : seekTo(pos)
    \/ \E k \in Slots, ok \in BOOLEAN : TransportDone(k, ok)
    \/ stopSong
    \/ stopPlayback
    \/ \E k \in Slots, ok \in BOOLEAN : StopAsyncDone(k, ok)
    \/ \E k \in Slots, ok \in BOOLEAN : StopUnloadDone(k, ok)
    \/ playNextSong
    \/ playPreviousSong
    \/ \E s \in Sounds, status \in Statuses : updatePlaybackStatus(s, status)
    \/ \E songs \in Queues : setPlaylistAndUpdateCurrent(songs)
    \/ \E source \in Sources : setPlaylistSource(source)

Spec == Init /\ [][EngineNext]_vars

\* ============================================================== claims
\* This step suspends a new playSong(song) call.
StartsPlayOf(song) ==
    \E k \in Slots : /\ calls[k] = Idle
                     /\ calls'[k].op = "playSong"
                     /\ calls'[k].song = song

\* This step suspends no new playSong call and creates no sound.
StartsNoLoad ==
    /\ \A k \in Slots : calls'[k].op = "playSong" => calls[k].op = "playSong"
    /\ nextSound' = nextSound

\* Some queue entry has currentSong's id.
CurrentInQueue ==
    /\ currentSong # NoSong
    /\ \E i \in 1..Len(playlist) : playlist[i].id = currentSong.id

\* The 0-based position of currentSong in the queue.
CurrentIndex == (CHOOSE i \in 1..Len(playlist) : playlist[i].id = currentSong.id) - 1

\* C1: at no instant are two audio resources open at the same time, also
\* when playSong calls overlap.
AtMostOneResourceOpen == Cardinality(open) <= 1

\* C2: a playSong call that fails (in unloadAsync or in createAsync) leaves
\* the engine Idle: no resource loaded, currentSong null, isPlaying and
\* isLoading false, error set.
FailedPlayEndsIdle ==
    [][\A k \in Slots :
          (PlayUnloadDone(k, FALSE) \/ PlayCreateDone(k, FALSE)) =>
             /\ open' = {}
             /\ playbackInstance' = NoSound
             /\ currentSong' = NoSong
             /\ ~isPlaying'
             /\ ~isLoading'
             /\ error' # NoError]_vars

\* The step in which a stopSong / stopPlayback call returns, after the
\* runtime answered with ok or without any runtime call.
StopReturns(ok) ==
    \/ \E k \in Slots : StopUnloadDone(k, ok)
    \/ ~ok /\ \E k \in Slots : StopAsyncDone(k, FALSE)
    \/ ok /\ playbackInstance = NoSound /\ (stopSong \/ stopPlayback)

\* Any step of a stopSong / stopPlayback call.
StopSteps ==
    \/ stopSong
    \/ stopPlayback
    \/ \E k \in Slots, ok \in BOOLEAN : StopAsyncDone(k, ok) \/ StopUnloadDone(k, ok)

\* C3 as stated: whenever stop() returns no resource is loaded, currentSong
\* is null, isPlaying is false, position and duration are 0, queue and
\* source tag are unchanged and no load was started.
StopAlwaysEndsIdle ==
    [][(\E ok \in BOOLEAN : StopReturns(ok)) =>
          /\ open' = {}
          /\ playbackInstance' = NoSound
          /\ currentSong' = NoSong
          /\ ~isPlaying'
          /\ position' = 0 /\ duration' = 0
          /\ playlist' = playlist /\ playlistSource' = playlistSource
          /\ StartsNoLoad]_vars

\* C3 amended: when stop() returns after runtime calls that all succeeded,
\* playbackInstance is null, the sound it was called on is released,
\* currentSong is null, isPlaying is false, position and duration are 0; a
\* stop() whose runtime call failed changes nothing but error; no step of
\* stop() changes the queue or the source tag or starts a load.
SuccessfulStopEndsIdle ==
    [][/\ StopReturns(TRUE) =>
            /\ playbackInstance' = NoSound
            /\ \A k \in Slots : (calls[k].op \in StopOps /\ calls'[k] = Idle)
                                    => calls[k].inst \notin open'
            /\ currentSong' = NoSong
            /\ ~isPlaying'
            /\ position' = 0 /\ duration' = 0
       /\ StopReturns(FALSE) =>
            /\ error' \in {"Failed to stop song", "Failed to stop playback"}
            /\ UNCHANGED <<currentSong, isPlaying, isLoading, playbackInstance,
                           duration, position, open, unloading, onStatus>>
       /\ StopSteps =>
            /\ playlist' = playlist /\ playlistSource' = playlistSource
            /\ StartsNoLoad]_vars

\* C3 witness: a stop that had a loaded sound to release has returned (the
\* sound's callback is still registered, no instance, no call suspended).
StopReleasedWitness ==
    /\ playbackInstance = NoSound
    /\ currentSong = NoSong
    /\ open = {}
    /\ nextSound > 1
    /\ error = NoError
    /\ Quiescent

\* C4: with currentSong at index i of a queue of length n >= 1, playNextSong
\* plays queue[(i + 1) mod n] and playPreviousSong plays
\* queue[(i - 1 + n) mod n].
NavigationWrapsAround ==
    [][/\ (CurrentInQueue /\ playNextSong) =>
            StartsPlayOf(playlist[((CurrentIndex + 1) % Len(playlist)) + 1])
       /\ (CurrentInQueue /\ playPreviousSong) =>
            StartsPlayOf(playlist[((CurrentIndex - 1 + Len(playlist)) % Len(playlist)) + 1])]_vars

\* C4 witness: the last song of a three-song queue is current and a play of
\* the first one has been started.
WrapToFirstWitness ==
    /\ Len(playlist) = 3
    /\ currentSong = playlist[3]
    /\ \E k \in Slots : calls[k].op = "playSong" /\ calls[k].song = playlist[1]

\* C5: with an empty queue, no currentSong, or no queue entry of
\* currentSong's id, playNextSong and playPreviousSong change nothing.
NavigationWithoutCurrentIsNoOp ==
    [][((playNextSong \/ playPreviousSong) /\ ~CurrentInQueue) => UNCHANGED vars]_vars

\* C5 witness: a song is loaded and current, the queue is not empty and does
\* not contain it, and nothing is suspended.
CurrentMissingWitness ==
    /\ currentSong # NoSong
    /\ playbackInstance \in open
    /\ Len(playlist) > 0
    /\ ~CurrentInQueue
    /\ Quiescent

\* C6: seekTo(target) with an instance asks the runtime for
\* max(0, min(target, duration)); without an instance it does nothing.
SeekIsClamped ==
    [][\A pos \in SeekTargets :
          seekTo(pos) =>
             IF playbackInstance = NoSound THEN UNCHANGED vars
             ELSE \E k \in Slots :
                     /\ calls[k] = Idle
                     /\ calls'[k].op = "seekTo"
                     /\ calls'[k].inst = playbackInstance
                     /\ calls'[k].arg = Max(0, Min(pos, duration))]_vars

\* C6 witness: a seek beyond the end is suspended on the loaded sound with
\* the duration as its position.
SeekClampedWitness ==
    /\ duration > 0
    /\ \E k \in Slots : /\ calls[k].op = "seekTo"
                        /\ calls[k].inst = playbackInstance
                        /\ calls[k].arg = duration

\* C7: pauseSong / resumeSong without an instance change nothing; with one
\* they call the runtime on that instance, and neither the call nor its
\* answer releases it, creates a sound or changes currentSong or the queue.
PauseResumeKeepResource ==
    [][/\ (pauseSong \/ resumeSong) =>
            IF playbackInstance = NoSound THEN UNCHANGED vars
            ELSE /\ \E k \in Slots :
                       /\ calls[k] = Idle
                       /\ calls'[k].op \in {"pauseSong", "resumeSong"}
                       /\ calls'[k].inst = playbackInstance
                 /\ UNCHANGED <<open, unloading, nextSound, playbackInstance,
                                currentSong, playlist, error>>
       /\ \A k \in Slots, ok \in BOOLEAN :
            (calls[k].op \in {"pauseSong", "resumeSong"} /\ TransportDone(k, ok)) =>
                UNCHANGED <<open, unloading, nextSound, playbackInstance,
                            currentSong, playlist>>]_vars

\* C7 witness: a pause is suspended on the loaded instance.
PauseSuspendedWitness ==
    /\ playbackInstance \in open
    /\ \E k \in Slots : calls[k].op = "pauseSong" /\ calls[k].inst = playbackInstance

\* C8: when the runtime call of pauseSong, resumeSong or seekTo fails on a
\* loaded sound, only error changes.
TransportFailureOnlySetsError ==
    [][\A k \in Slots :
          (TransportDone(k, FALSE) /\ calls[k].inst \in open) =>
             /\ error' = TransportError(calls[k].op)
             /\ open' = open
             /\ UNCHANGED <<currentSong, isPlaying, isLoading, playbackInstance,
                            duration, position, playlist, playlistSource,
                            unloading, onStatus, nextSound>>]_vars

\* C8 witness: a seek has failed on the sound that is still loaded and current.
SeekFailedWitness ==
    /\ error = "Failed to seek"
    /\ playbackInstance \in open
    /\ currentSong # NoSong
    /\ isPlaying

\* C9: a loaded status with didJustFinish for the song at index i of the
\* current queue of length n starts a play of queue[(i + 1) mod n]; a status
\* that is not loaded starts nothing, and so does a status without
\* didJustFinish.
CompletionAdvancesInCurrentQueue ==
    [][\A s \in Sounds, status \in Statuses :
          updatePlaybackStatus(s, status) =>
             /\ (status.isLoaded /\ status.didJustFinish /\ CurrentInQueue) =>
                    StartsPlayOf(playlist[((CurrentIndex + 1) % Len(playlist)) + 1])
             /\ (~status.isLoaded \/ ~status.didJustFinish) => StartsNoLoad]_vars

Stored == Parse(storage)

\* The stored playlist of this id holds a song of this id.
StoredHasSong(playlistId, songId) ==
    \E n \in 1..Len(Stored) :
        /\ Stored[n].id = playlistId
        /\ \E i \in 1..Len(Stored[n].songs) : Stored[n].songs[i].id = songId

\* Some stored playlist has this id.
StoredHasPlaylist(playlistId) == \E n \in 1..Len(Stored) : Stored[n].id = playlistId

\* C11: an addSongToPlaylist whose song is already in the stored playlist
\* throws the duplicate error and leaves the stored collection (songs,
\* updatedAt and coverImage of that playlist, and every other playlist) as it
\* was.
DuplicateAddChangesNothing ==
    [][\A k \in StoreSlots :
          (/\ StoreRead(k, TRUE)
           /\ storeCalls[k].op = "addSongToPlaylist"
           /\ StoredHasSong(storeCalls[k].playlistId, storeCalls[k].song.id))
          => /\ outcome' = "Song already exists in playlist"
             /\ storeCalls'[k] = StoreIdle
             /\ storage' = storage]_vars

\* C11 witness: a duplicate add has just been rejected at a time later than
\* the last update of a stored two-song playlist.
DuplicateLaterWitness ==
    /\ outcome = "Song already exists in playlist"
    /\ \E n \in 1..Len(Stored) : Len(Stored[n].songs) = 2 /\ Stored[n].updatedAt < clock

\* The cover a playlist should carry: its first song's, none when it is empty.
FirstSongCover(p) == IF Len(p.songs) > 0 THEN p.songs[1].coverImage ELSE NoCover

\* C12: every playlist, as stored and as PlaylistDetailScreen holds it after
\* a reorder, carries the cover of its first song, and no cover when it has
\* no songs.
CoverFollowsFirstSong ==
    /\ \A n \in 1..Len(Stored) : Stored[n].coverImage = FirstSongCover(Stored[n])
    /\ shown # NoPlaylist => shown.coverImage = FirstSongCover(shown)

\* The stored playlist of this id; NoPlaylist when none is stored.
StoredPlaylistOf(playlistId) ==
    IF StoredHasPlaylist(playlistId)
    THEN Stored[CHOOSE n \in 1..Len(Stored) : Stored[n].id = playlistId]
    ELSE NoPlaylist

\* C13: a removeSongFromPlaylist of a song the stored playlist does not hold
\* throws nothing and leaves that playlist's songs and updatedAt as they
\* were.
AbsentRemovalChangesNothing ==
    [][\A k \in StoreSlots, id \in PlaylistIds :
          (/\ storeCalls[k].op = "removeSongFromPlaylist"
           /\ storeCalls[k].playlistId = id
           /\ StoredHasPlaylist(id)
           /\ ~StoredHasSong(id, storeCalls[k].song.id))
          => /\ StoreRead(k, TRUE) => outcome' = "none"
             /\ StoreWrite(k, TRUE) =>
                   /\ outcome' = "ok"
                   /\ StoredPlaylistOf(id)'.songs = StoredPlaylistOf(id).songs
                   /\ StoredPlaylistOf(id)'.updatedAt = StoredPlaylistOf(id).updatedAt]_vars

\* seq without its element at 0-based position i.
Without(seq, i) ==
    [j \in 1..(Len(seq) - 1) |-> IF j <= i THEN seq[j] ELSE seq[j + 1]]

\* after is before with the element of position from moved to position to,
\* all other elements in their old relative order.
IsMoveOf(after, before, from, to) ==
    /\ Len(after) = Len(before)
    /\ after[to + 1] = before[from + 1]
    /\ Without(after, to) = Without(before, from)

\* C14: a reorder with two valid positions moves the song of position from
\* to position to and keeps the relative order of the others, in the screen's
\* copy and in the stored playlist; a reorder with from = to returns without
\* writing.
ReorderMovesOneSong ==
    [][/\ \A from, to \in 0..(MaxQueue - 1) :
             onDragEnd(from, to) => IsMoveOf(shown'.songs, shown.songs, from, to)
       /\ \A k \in StoreSlots, id \in PlaylistIds :
             (/\ storeCalls[k].op \in {"reorderSongsInPlaylist", "onDragEnd"}
              /\ storeCalls[k].playlistId = id)
             => /\ StoreWrite(k, TRUE) =>
                      IsMoveOf(StoredPlaylistOf(id)'.songs, StoredPlaylistOf(id).songs,
                               storeCalls[k].from, storeCalls[k].to)
                /\ (/\ StoreRead(k, TRUE)
                    /\ storeCalls[k].from = storeCalls[k].to
                    /\ storeCalls[k].from < Len(StoredPlaylistOf(id).songs))
                   => /\ storeCalls'[k] = StoreIdle
                      /\ outcome' = "ok"
                      /\ storage' = storage]_vars

\* C14 witness: the first song of a stored three-song playlist has been moved
\* to the last position, the other two moving up.
MovedToEndWitness ==
    /\ outcome = "ok"
    /\ started > 0
    /\ \E n \in 1..Len(Stored) :
          /\ Len(Stored[n].songs) = 3
          /\ Stored[n].updatedAt = 0
          /\ Stored[n].songs[3].coverImage = Stored[n].coverImage

\* C15: when createPlaylist(name) returns, the stored collection is the one
\* stored before with the new playlist appended, so that getPlaylist of its
\* id finds the name, no songs and no cover, and every playlist stored
\* before is still there unchanged.
CreateAppendsNewPlaylist ==
    [][\A k \in StoreSlots :
          (StoreWrite(k, TRUE) /\ storeCalls[k].op = "createPlaylist")
          => /\ outcome' = "ok"
             /\ Stored' = Append(Stored, storeCalls[k].playlist)
             /\ storeCalls[k].playlist.name \in Names
             /\ storeCalls[k].playlist.songs = <<>>
             /\ storeCalls[k].playlist.coverImage = NoCover]_vars

\* C16: for an id that no stored playlist has, addSongToPlaylist and
\* removeSongFromPlaylist throw the not-found error and getPlaylist returns
\* null, each leaving the stored collection as it was, and deletePlaylist
\* returns without error, the collection unchanged.
MissingPlaylistIsHandled ==
    [][\A k \in StoreSlots :
          ~StoredHasPlaylist(storeCalls[k].playlistId)
          => /\ (/\ storeCalls[k].op \in {"addSongToPlaylist", "removeSongFromPlaylist"}
                 /\ StoreRead(k, TRUE))
                => (outcome' = "Playlist not found" /\ storage' = storage)
             /\ (storeCalls[k].op = "getPlaylist" /\ StoreRead(k, TRUE))
                => (outcome' = "null" /\ storage' = storage)
             /\ (storeCalls[k].op = "deletePlaylist" /\ StoreWrite(k, TRUE))
                => (outcome' = "ok" /\ Stored' = Stored)]_vars

\* What a call reports when it fails.
Failures == {"Playlist not found", "Song already exists in playlist",
             "Invalid index", "Durable Store failure"}

\* The call of slot k returns in this step, a Durable Store call of it
\* having failed in this step or before.
ReturnsAfterStoreFailure(k) ==
    /\ storeCalls[k] # StoreIdle
    /\ storeCalls'[k] = StoreIdle
    /\ \/ storeCalls[k].ioFailed
       \/ StoreRead(k, FALSE)
       \/ StoreWrite(k, FALSE)

\* C17: a createPlaylist, deletePlaylist, addSongToPlaylist or
\* removeSongFromPlaylist during which a Durable Store read or write failed
\* reports a failure and leaves the stored collection as it was before the
\* call.
StoreFailureIsReported ==
    [][\A k \in StoreSlots :
          (/\ storeCalls[k].op \in {"createPlaylist", "deletePlaylist",
                                    "addSongToPlaylist", "removeSongFromPlaylist"}
           /\ ReturnsAfterStoreFailure(k))
          => (outcome' \in Failures /\ storage' = storage)]_vars

\* No two stored playlists have the same id.
DistinctPlaylistIds ==
    \A i, j \in 1..Len(Stored) : Stored[i].id = Stored[j].id => i = j

SourceTagDoesNotInfluencePlayback ==
    [][\A songs \in Queues, tag \in ScreenTags :
          handlePlayPlaylist(songs, tag) =>
              \A source \in Sources :
                  AlreadyPlaying(songs, tag, source) = (calls' = calls)]_vars

\* C20: within one playSong call that found an instance loaded, the unload of
\* that instance has completed before createAsync is called: no playSong call
\* is suspended on createAsync while the instance its closure saw is still
\* open.
UnloadCompletesBeforeCreate ==
    \A k \in Slots :
        (/\ calls[k].op = "playSong"
         /\ calls[k].pc = "createAsync"
         /\ calls[k].inst # NoSound)
        => calls[k].inst \notin open

\* A playSong call that found instance 1 loaded is creating the next sound
\* while another sound is open.
CreateAfterUnloadWitness ==
    \E k \in Slots :
        /\ calls[k].op = "playSong"
        /\ calls[k].pc = "createAsync"
        /\ calls[k].inst = 1
        /\ 1 \notin open
        /\ open # {}

\* C21: replacing the queue while a song is loaded leaves currentSong, the
\* loaded sound and the transport state as they were and starts no call, and
\* every later transition (playNextSong, playPreviousSong, or the auto-advance
\* of a status with didJustFinish) picks its target in the queue in force
\* when the transition happens.
QueueReplacementShowsOnNextTransition ==
    [][/\ \A songs \in Queues :
             setPlaylistAndUpdateCurrent(songs) =>
                 UNCHANGED <<currentSong, playbackInstance, open, isPlaying,
                             isLoading, position, duration, calls>>
       /\ (playNextSong /\ CurrentInQueue) =>
              StartsPlayOf(playlist[((CurrentIndex + 1) % Len(playlist)) + 1])
       /\ (playPreviousSong /\ CurrentInQueue) =>
              StartsPlayOf(playlist[((CurrentIndex - 1 + Len(playlist)) % Len(playlist)) + 1])
       /\ \A s \in Sounds, status \in Statuses :
             (/\ updatePlaybackStatus(s, status)
              /\ status.isLoaded /\ status.didJustFinish
              /\ s = playbackInstance /\ CurrentInQueue) =>
                 StartsPlayOf(playlist[((CurrentIndex + 1) % Len(playlist)) + 1])]_vars

\* The ops that change the songs of one playlist.
SongMutations == {"addSongToPlaylist", "removeSongFromPlaylist"}

\* C22: mutations of the Playlist Store are not atomic.  A mutation's
\* successful write stores exactly the collection the call computed from its
\* own reads, with the playlist as the call built it from its first read,
\* whatever an overlapping call has written in between, and returns without
\* error; and when two mutations of one playlist have both read and neither
\* has written, the write of one leaves what the other will write untouched.
\* So the later write wins and the earlier change is absent from it.
LaterWriteWins ==
    [][\A j \in StoreSlots :
          (StoreWrite(j, TRUE) /\ storeCalls[j].op \in SongMutations) =>
              /\ outcome' = "ok"
              /\ storage' = Stringify(storeCalls[j].data)
              /\ \A n \in 1..Len(Parse(storage')) :
                    Parse(storage')[n].id = storeCalls[j].playlistId
                        => Parse(storage')[n] = storeCalls[j].playlist
              /\ \A k \in StoreSlots \ {j} :
                    (/\ storeCalls[k].op \in SongMutations
                     /\ storeCalls[k].pc = "write"
                     /\ storeCalls[k].playlistId = storeCalls[j].playlistId)
                    => storeCalls'[k] = storeCalls[k]]_vars

\* An addSongToPlaylist whose reads all succeeded is about to write, and the
\* stored playlist holds a song, added by an overlapping call after this call
\* read, that the playlist this call will write lacks.
LostUpdateWitness ==
    \E j \in StoreSlots :
        /\ storeCalls[j].op = "addSongToPlaylist"
        /\ storeCalls[j].pc = "write"
        /\ ~storeCalls[j].ioFailed
        /\ outcome = "ok"
        /\ \E song \in StoreSongs :
              /\ StoredHasSong(storeCalls[j].playlistId, song.id)
              /\ ~HasSong(storeCalls[j].playlist, song.id)

\* C23: every playSong call that sets isLoading is eventually followed by
\* isLoading being false, through a loaded status of the new sound or through
\* the catch block, when the runtime answers every unloadAsync / createAsync
\* and reports the status of a loaded sound.
LoadingEventuallyClears == isLoading ~> ~isLoading

\* A playSong call has succeeded and the first loaded status of its sound has
\* cleared isLoading while the sound is still held and open.
LoadingClearedByStatusWitness ==
    /\ ~isLoading
    /\ currentSong # NoSong
    /\ playbackInstance \in open
    /\ duration = MaxMs
    /\ Quiescent

\* C24: whenever no playSong and no stopSong / stopPlayback call is in
\* flight, currentSong is null exactly when playbackInstance is null: no
\* sequence of successful and failed play / stop calls leaves a sound held
\* while currentSong is null.
CurrentSongIffResource ==
    (NoPlaySuspended /\ NoStopSuspended) =>
        ((currentSong = NoSong) <=> (playbackInstance = NoSound))

\* C25: whenever no playSong call is in flight and currentSong is not null,
\* some entry of the queue has currentSong's id, for every interleaving of the
\* screens' play handlers.
CurrentSongStaysInQueue ==
    (NoPlaySuspended /\ currentSong # NoSong) => CurrentInQueue

\* Idle: no sound held or open, no current song, not playing.
EngineIdle ==
    /\ playbackInstance = NoSound
    /\ open = {}
    /\ currentSong = NoSong
    /\ ~isPlaying

\* C26: if a stop is called while a playSong call is in flight, then once
\* both calls have completed the engine is Idle.  The step that completes the
\* later of the two calls is either the completion of a playSong call during
\* which a stop was called, with no stop left in flight, or the return of a
\* stop that was called during a playSong call, with no playSong left in
\* flight.
StopDuringPlayEndsIdle ==
    [][\A k \in Slots :
          /\ (/\ calls[k].op = "playSong" /\ calls[k].arg = 1
              /\ \E ok \in BOOLEAN : PlayCreateDone(k, ok) \/ PlayUnloadDone(k, ok)
              /\ calls'[k] = Idle
              /\ NoStopSuspended)
             => EngineIdle'
          /\ (/\ calls[k].op \in StopOps /\ calls[k].arg = 1
              /\ \E ok \in BOOLEAN : StopAsyncDone(k, ok) \/ StopUnloadDone(k, ok)
              /\ calls'[k] = Idle
              /\ NoPlaySuspended)
             => EngineIdle']_vars

\* C27: once every overlapping playSong call has completed and the unloads
\* started by the cleanup effect have been answered, no sound other than the
\* one held in playbackInstance is open, that sound is open, and a sound is
\* held exactly when there is a current song (the sound and currentSong are
\* set together by lines 115-116, so the sound held is the one created for
\* currentSong).
OverlappingPlaysSettle ==
    (NoPlaySuspended /\ unloading = {}) =>
        /\ open = (IF playbackInstance = NoSound THEN {} ELSE {playbackInstance})
        /\ (playbackInstance # NoSound) <=> (currentSong # NoSong)

\* C28: a playlist removed by deletePlaylist is never put back by an
\* addSongToPlaylist / removeSongFromPlaylist call on its id that overlaps the
\* delete.  Such a call found the playlist in its first read; when it writes
\* after the delete's write has removed the playlist, the collection it
\* stores holds no playlist of that id.
DeletedPlaylistStaysDeleted ==
    [][\A j \in StoreSlots, id \in PlaylistIds :
          (/\ StoreWrite(j, TRUE)
           /\ storeCalls[j].op \in SongMutations
           /\ storeCalls[j].playlistId = id
           /\ ~StoredHasPlaylist(id))
          => \A n \in 1..Len(Parse(storage')) : Parse(storage')[n].id # id]_vars

\* C29: a failed Durable Store read never loses stored playlists.  When the
\* read inside createPlaylist, deletePlaylist, addSongToPlaylist or
\* removeSongFromPlaylist failed and the write that follows succeeds, every
\* playlist stored before the write, other than the one a deletePlaylist was
\* asked to delete, is stored after it.
FailedReadLosesNoPlaylist ==
    [][\A k \in StoreSlots, id \in PlaylistIds :
          (/\ StoreWrite(k, TRUE)
           /\ storeCalls[k].ioFailed
           /\ storeCalls[k].op \in {"createPlaylist", "deletePlaylist",
                                    "addSongToPlaylist", "removeSongFromPlaylist"}
           /\ StoredHasPlaylist(id)
           /\ ~(storeCalls[k].op = "deletePlaylist" /\ storeCalls[k].playlistId = id))
          => \E n \in 1..Len(Parse(storage')) : Parse(storage')[n].id = id]_vars

\* The rows of the playlist-detail screen.
Rows == {PlaylistSongs[i] : i \in 1..Len(PlaylistSongs)}

\* C30: whenever a tap on a song row of the playlist-detail screen completes
\* without a playback error, that song is currentSong, the queue is the
\* playlist's songs, the source tag is 'playlist-detail' and that row, and
\* only that row, shows the highlight.  A tap completes at once, changing
\* nothing, in every state in which handlePlaySong finds the song already
\* playing; otherwise it completes when the createAsync of the playSong call
\* it made succeeds.
TappedRowIsHighlighted ==
    [][/\ \A song \in Rows :
             SongAlreadyPlaying(song)' =>
                 /\ playlist' = PlaylistSongs
                 /\ showNowPlaying(song)'
                 /\ \A other \in Rows \ {song} : ~showNowPlaying(other)'
       /\ \A k \in Slots :
             (/\ PlayCreateDone(k, TRUE)
              /\ playlist = PlaylistSongs /\ playlistSource = "playlist-detail"
              /\ calls[k].song \in Rows)
             => /\ currentSong' = calls[k].song
                /\ playlist' = PlaylistSongs
                /\ showNowPlaying(calls[k].song)'
                /\ \A other \in Rows \ {calls[k].song} : ~showNowPlaying(other)']_vars

====
